---- MODULE Spec2Model ----
(***************************************************************************)
(* SMS expense scanner (src/App.jsx): the extractor parseExpenseFromSms    *)
(* and the scan orchestration of the App component (permission request,    *)
(* inbox read, callbacks, loading flag).                                   *)
(*                                                                         *)
(* Text is a sequence of one-character strings.  A JavaScript Number is a  *)
(* record [kind, int, frac]: kind is "finite", "Infinity" or "NaN"; a      *)
(* finite value is written as the decimal it was read from, int without    *)
(* leading zeros and frac without trailing zeros.  A value that may be     *)
(* null is a sequence of length 0 (null) or 1.                             *)
(*                                                                         *)
(* A step of the App is one handler run to its end, with the render that   *)
(* follows it.  Alert.alert is an output: alert holds what the last        *)
(* handler raised.  The debug log (setDebug, console.log) is written by    *)
(* log() only and read by nothing, and is left out.                        *)
(***************************************************************************)
EXTENDS Integers, Sequences, FiniteSets, TLC

VARIABLES
    body,               \* parseExpenseFromSms: argument body
    date,               \* parseExpenseFromSms: argument date
    amountMatch,        \* parseExpenseFromSms: local amountMatch (<<>> is null)
    result,             \* parseExpenseFromSms: returned value (<<>> is null)
    pc,                 \* parseExpenseFromSms: "idle", "call" or "return"
    expenses,           \* useState: expenses
    loading,            \* useState: loading
    permissionGranted,  \* useState: permissionGranted
    effectPending,      \* the [permissionGranted] effect is scheduled to run
    requests,           \* PermissionsAndroid.request promises not yet settled
    scans,              \* SmsAndroid.list calls whose callback has not run yet
    alert,              \* the Alert.alert raised by the last handler, "" if none
    event,              \* the handler that ran last
    parsedList,         \* the list the last handler mapped for setExpenses, else <<>>
    nRequests,          \* permission requests made so far
    nScans              \* scans started so far

extractVars == <<body, date, amountMatch, result, pc>>
appVars == <<expenses, loading, permissionGranted, effectPending, requests,
             scans, alert, event, parsedList, nRequests, nScans>>
vars == <<body, date, amountMatch, result, pc, expenses, loading,
          permissionGranted, effectPending, requests, scans, alert, event,
          parsedList, nRequests, nScans>>

-----------------------------------------------------------------------------
(* Bounds of the model. *)

MaxTokens == 4
MaxHead == 2
MaxBatch == 3
MaxRequests == 3
MaxScans == 2

-----------------------------------------------------------------------------
(* Characters. *)

RUPEE == "U+20B9"      \* the one-character string holding the rupee sign

Digits == <<"0", "1", "2", "3", "4", "5", "6", "7", "8", "9">>

LowerCase == <<"a", "b", "c", "d", "e", "f", "g", "h", "i", "j", "k", "l", "m",
               "n", "o", "p", "q", "r", "s", "t", "u", "v", "w", "x", "y", "z">>

UpperCase == <<"A", "B", "C", "D", "E", "F", "G", "H", "I", "J", "K", "L", "M",
               "N", "O", "P", "Q", "R", "S", "T", "U", "V", "W", "X", "Y", "Z">>

Range(s) == {s[i] : i \in 1..Len(s)}

Min(S) == CHOOSE x \in S : \A y \in S : x <= y

\* \d
IsDigit(c) == c \in {"0", "1", "2", "3", "4", "5", "6", "7", "8", "9"}

\* \s
IsSpace(c) == c \in {" ", "\t", "\n", "\r"}

\* Canonicalize of the i flag: a letter stands for its upper-case form.
ToUpperCase ==
    [c \in Range(LowerCase) |->
        UpperCase[CHOOSE i \in 1..Len(LowerCase) : LowerCase[i] = c]]

Canonicalize(c) == IF c \in DOMAIN ToUpperCase THEN ToUpperCase[c] ELSE c

\* CharMatches without the i flag.
CharMatchesExact(patternChar, c) == patternChar = c

\* A pattern character against an input character under the i flag.
CharMatches(patternChar, c) == Canonicalize(patternChar) = Canonicalize(c)

-----------------------------------------------------------------------------
(* amountRegex = /(?:RS|INR|<rupee sign>)\s?(\d+(:?\.\d{1,2})?)/i          *)
(* A position q is the index of the next character to read; 0 is failure.  *)

\* A literal of the pattern at position p.
LiteralAt(s, p, lit) ==
    /\ p + Len(lit) - 1 <= Len(s)
    /\ \A i \in 1..Len(lit) : CharMatches(lit[i], s[p + i - 1])

\* MarkerEnd with the marker made optional, (?:RS|INR|<rupee sign>)?
MarkerEndOptional(s, p) ==
    IF LiteralAt(s, p, <<"R", "S">>) THEN p + 2
    ELSE IF LiteralAt(s, p, <<"I", "N", "R">>) THEN p + 3
    ELSE IF LiteralAt(s, p, <<RUPEE>>) THEN p + 1
    ELSE p

\* (?:RS|INR|<rupee sign>) at p: the position after it, 0 when no alternative matches.
MarkerEnd(s, p) ==
    IF LiteralAt(s, p, <<"R", "S">>) THEN p + 2
    ELSE IF LiteralAt(s, p, <<"I", "N", "R">>) THEN p + 3
    ELSE IF LiteralAt(s, p, <<RUPEE>>) THEN p + 1
    ELSE 0

\* \s? at q (greedy; giving the space back cannot help, \d would read it).
OptSpaceEnd(s, q) ==
    IF q <= Len(s) /\ IsSpace(s[q]) THEN q + 1 ELSE q

\* \d* at q, greedy: the position after the longest run of digits.
DigitRunEnd(s, q) ==
    LET stops == {i \in q..Len(s) : ~IsDigit(s[i])}
    IN  IF stops = {} THEN Len(s) + 1 ELSE Min(stops)

\* (:?\.\d{1,2})? at q, greedy: an optional colon, a point, one or two digits.
FractionEnd(s, q) ==
    LET c == IF q <= Len(s) /\ s[q] = ":" THEN q + 1 ELSE q
    IN  IF c + 1 <= Len(s) /\ s[c] = "." /\ IsDigit(s[c + 1])
        THEN IF c + 2 <= Len(s) /\ IsDigit(s[c + 2]) THEN c + 3 ELSE c + 2
        ELSE q

\* Where the capture group 1 starts for a match at p (0: no match at p).
CaptureStart(s, p) ==
    LET m == MarkerEnd(s, p)
    IN  IF m = 0 THEN 0
        ELSE LET q == OptSpaceEnd(s, m)
             IN  IF DigitRunEnd(s, q) > q THEN q ELSE 0

\* The whole pattern at p: the position after the match, 0 when none.
MatchEnd(s, p) ==
    LET q == CaptureStart(s, p)
    IN  IF q = 0 THEN 0 ELSE FractionEnd(s, DigitRunEnd(s, q))

\* body.match(amountRegex): the leftmost match as [index, end, 0 and 1 as in
\* the match array], <<>> for null.
StringMatch(s) ==
    LET starts == {p \in 1..Len(s) : MatchEnd(s, p) # 0}
    IN  IF starts = {} THEN <<>>
        ELSE LET p == Min(starts)
                 e == MatchEnd(s, p)
             IN  << [index |-> p,
                     end |-> e,
                     whole |-> SubSeq(s, p, e - 1),
                     group1 |-> SubSeq(s, CaptureStart(s, p), e - 1)] >>

\* StringReplace with a global regex: every match is cut out.
RECURSIVE StringReplaceAll(_)
StringReplaceAll(s) ==
    LET m == StringMatch(s)
    IN  IF m = <<>> THEN s
        ELSE SubSeq(s, 1, m[1].index - 1)
               \o StringReplaceAll(SubSeq(s, m[1].end, Len(s)))

\* body.replace(amountRegex, ''): the regex is not global, so the first match
\* of a fresh search is cut out.
StringReplace(s) ==
    LET m == StringMatch(s)
    IN  IF m = <<>> THEN s
        ELSE SubSeq(s, 1, m[1].index - 1) \o SubSeq(s, m[1].end, Len(s))

\* str.slice(0, end)
StringSlice(s, end) == SubSeq(s, 1, IF Len(s) < end THEN Len(s) ELSE end)

-----------------------------------------------------------------------------
(* parseFloat *)

\* 2^1024 - 2^970: a decimal integer at or above it rounds to Infinity.
OverflowThreshold ==
  <<
     "1", "7", "9", "7", "6", "9", "3", "1", "3", "4", "8", "6", "2", "3", "1", "5",
     "8", "0", "7", "9", "3", "7", "2", "8", "9", "7", "1", "4", "0", "5", "3", "0",
     "3", "4", "1", "5", "0", "7", "9", "9", "3", "4", "1", "3", "2", "7", "1", "0",
     "0", "3", "7", "8", "2", "6", "9", "3", "6", "1", "7", "3", "7", "7", "8", "9",
     "8", "0", "4", "4", "4", "9", "6", "8", "2", "9", "2", "7", "6", "4", "7", "5",
     "0", "9", "4", "6", "6", "4", "9", "0", "1", "7", "9", "7", "7", "5", "8", "7",
     "2", "0", "7", "0", "9", "6", "3", "3", "0", "2", "8", "6", "4", "1", "6", "6",
     "9", "2", "8", "8", "7", "9", "1", "0", "9", "4", "6", "5", "5", "5", "5", "4",
     "7", "8", "5", "1", "9", "4", "0", "4", "0", "2", "6", "3", "0", "6", "5", "7",
     "4", "8", "8", "6", "7", "1", "5", "0", "5", "8", "2", "0", "6", "8", "1", "9",
     "0", "8", "9", "0", "2", "0", "0", "0", "7", "0", "8", "3", "8", "3", "6", "7",
     "6", "2", "7", "3", "8", "5", "4", "8", "4", "5", "8", "1", "7", "7", "1", "1",
     "5", "3", "1", "7", "6", "4", "4", "7", "5", "7", "3", "0", "2", "7", "0", "0",
     "6", "9", "8", "5", "5", "5", "7", "1", "3", "6", "6", "9", "5", "9", "6", "2",
     "2", "8", "4", "2", "9", "1", "4", "8", "1", "9", "8", "6", "0", "8", "3", "4",
     "9", "3", "6", "4", "7", "5", "2", "9", "2", "7", "1", "9", "0", "7", "4", "1",
     "6", "8", "4", "4", "4", "3", "6", "5", "5", "1", "0", "7", "0", "4", "3", "4",
     "2", "7", "1", "1", "5", "5", "9", "6", "9", "9", "5", "0", "8", "0", "9", "3",
     "0", "4", "2", "8", "8", "0", "1", "7", "7", "9", "0", "4", "1", "7", "4", "4",
     "9", "7", "7", "9", "2" >>

DigitValue(c) == (CHOOSE i \in 1..Len(Digits) : Digits[i] = c) - 1

StripLeadingZeros(d) ==
    LET nz == {i \in 1..Len(d) : d[i] # "0"}
    IN  IF nz = {} THEN <<>> ELSE SubSeq(d, Min(nz), Len(d))

StripTrailingZeros(d) ==
    LET nz == {i \in 1..Len(d) : d[i] # "0"}
    IN  IF nz = {} THEN <<>>
        ELSE SubSeq(d, 1, CHOOSE i \in nz : \A j \in nz : j <= i)

\* The integer written by digit string a (no leading zeros) overflows a double.
Overflows(a) ==
    \/ Len(a) > Len(OverflowThreshold)
    \/ /\ Len(a) = Len(OverflowThreshold)
       /\ LET diff == {i \in 1..Len(a) : a[i] # OverflowThreshold[i]}
          IN  \/ diff = {}
              \/ DigitValue(a[Min(diff)]) > DigitValue(OverflowThreshold[Min(diff)])

\* parseFloat(str) for a str with no sign, exponent or leading blanks: the
\* longest prefix digits[.digits] is the value, NaN when there is none.
ParseFloat(str) ==
    LET i == DigitRunEnd(str, 1)
        j == IF i <= Len(str) /\ str[i] = "." THEN DigitRunEnd(str, i + 1) ELSE i
        intDigits == SubSeq(str, 1, i - 1)
        fracDigits == IF j > i THEN SubSeq(str, i + 1, j - 1) ELSE <<>>
    IN  IF intDigits = <<>> /\ fracDigits = <<>>
        THEN [kind |-> "NaN", int |-> <<>>, frac |-> <<>>]
        ELSE IF Overflows(StripLeadingZeros(intDigits))
        THEN [kind |-> "Infinity", int |-> <<>>, frac |-> <<>>]
        ELSE [kind |-> "finite",
              int |-> StripLeadingZeros(intDigits),
              frac |-> StripTrailingZeros(fracDigits)]

-----------------------------------------------------------------------------
(* parseExpenseFromSms *)

SliceEnd == 50

Ellipsis == <<".", ".", ".">>

MsPerDay == 86400000

\* new Date(parseInt(date)).toLocaleDateString(): the calendar day of the
\* instant (the rendering of the day is the locale's; the zone is taken as UTC).
ToLocaleDateString(ms) == [day |-> ms \div MsPerDay]

\* Description with the marker added only when something was cut.
DescriptionEllipsisWhenCut(s) ==
    IF Len(StringReplace(s)) > SliceEnd
    THEN StringSlice(StringReplace(s), SliceEnd) \o Ellipsis
    ELSE StringReplace(s)

\* const description = body.replace(amountRegex, '').slice(0, 50) + '...'
Description(s) == StringSlice(StringReplace(s), SliceEnd) \o Ellipsis

parseExpenseFromSms(b, d) ==
    LET m == StringMatch(b)
    IN  IF m # <<>>
        THEN << [amount |-> ParseFloat(m[1].group1),
                 description |-> Description(b),
                 date |-> ToLocaleDateString(d)] >>
        ELSE <<>>

-----------------------------------------------------------------------------
(* Inputs of the extractor. *)

RECURSIVE Flatten(_)
Flatten(ss) == IF ss = <<>> THEN <<>> ELSE Head(ss) \o Flatten(Tail(ss))

Repeat(c, n) == [i \in 1..n |-> c]

Tokens ==
    { <<"R", "s">>, <<"I", "N", "R">>, <<RUPEE>>, <<" ">>, <<"1">>, <<"0">>,
      <<".">>, <<":">>, <<"x">> }

\* Every text made of at most n tokens.
TokenBodies(n) ==
    UNION { {Flatten(f) : f \in [1..k -> Tokens]} : k \in 0..n }

\* The largest finite double, (2^53 - 1) * 2^971, in decimal.
DblMaxDigits ==
  <<
     "1", "7", "9", "7", "6", "9", "3", "1", "3", "4", "8", "6", "2", "3", "1", "5",
     "7", "0", "8", "1", "4", "5", "2", "7", "4", "2", "3", "7", "3", "1", "7", "0",
     "4", "3", "5", "6", "7", "9", "8", "0", "7", "0", "5", "6", "7", "5", "2", "5",
     "8", "4", "4", "9", "9", "6", "5", "9", "8", "9", "1", "7", "4", "7", "6", "8",
     "0", "3", "1", "5", "7", "2", "6", "0", "7", "8", "0", "0", "2", "8", "5", "3",
     "8", "7", "6", "0", "5", "8", "9", "5", "5", "8", "6", "3", "2", "7", "6", "6",
     "8", "7", "8", "1", "7", "1", "5", "4", "0", "4", "5", "8", "9", "5", "3", "5",
     "1", "4", "3", "8", "2", "4", "6", "4", "2", "3", "4", "3", "2", "1", "3", "2",
     "6", "8", "8", "9", "4", "6", "4", "1", "8", "2", "7", "6", "8", "4", "6", "7",
     "5", "4", "6", "7", "0", "3", "5", "3", "7", "5", "1", "6", "9", "8", "6", "0",
     "4", "9", "9", "1", "0", "5", "7", "6", "5", "5", "1", "2", "8", "2", "0", "7",
     "6", "2", "4", "5", "4", "9", "0", "0", "9", "0", "3", "8", "9", "3", "2", "8",
     "9", "4", "4", "0", "7", "5", "8", "6", "8", "5", "0", "8", "4", "5", "5", "1",
     "3", "3", "9", "4", "2", "3", "0", "4", "5", "8", "3", "2", "3", "6", "9", "0",
     "3", "2", "2", "2", "9", "4", "8", "1", "6", "5", "8", "0", "8", "5", "5", "9",
     "3", "3", "2", "1", "2", "3", "3", "4", "8", "2", "7", "4", "7", "9", "7", "8",
     "2", "6", "2", "0", "4", "1", "4", "4", "7", "2", "3", "1", "6", "8", "7", "3",
     "8", "1", "7", "7", "1", "8", "0", "9", "1", "9", "2", "9", "9", "8", "8", "1",
     "2", "5", "0", "4", "0", "4", "0", "2", "6", "1", "8", "4", "1", "2", "4", "8",
     "5", "8", "3", "6", "8" >>

\* Texts longer than the slice: fifty other characters after, or before, a
\* short text.
LongBodies ==
    { h \o Repeat("y", SliceEnd) \o t : h \in TokenBodies(MaxHead),
                                        t \in {<<>>, <<"x">>} }
    \cup { Repeat("y", SliceEnd) \o h : h \in TokenBodies(MaxHead) }

\* Amounts whose digit run is at the edge of the double range.
EdgeBodies ==
    { m \o z \o DblMaxDigits \o t :
        m \in {<<"R", "s">>, <<"I", "N", "R", " ">>, <<RUPEE>>},
        z \in {<<>>, <<"0">>, <<"1">>},
        t \in {<<>>, <<"0">>, <<"x">>, <<".", "9">>} }

Examples ==
    { <<"R", "S", " ", "1", "2", "3", ".", "4", "5", " ", "s", "p", "e", "n",
        "t", " ", "a", "t", " ", "s", "t", "o", "r", "e">>,
      <<RUPEE, "5", "0", "0", " ", "d", "e", "b", "i", "t", "e", "d">>,
      <<"I", "N", "R", " ", "1", "0", ".", "9", "9", "9">>,
      <<"r", "s", " ", "1", "0">>,
      <<"R", "S", " ", "1", "0">>,
      <<"R", "s", " ", "1", "0">>,
      <<"i", "n", "r", "7", ".", "5", "0", " ", "R", "s", " ", "2", "5">>,
      <<"R", "s", "\n", "4", "2", ":", ".", "7", " ", "o", "k">>,
      <<"O", "T", "P", " ", "1", "2", "3", "4", "5", "6">> }

Bodies == TokenBodies(MaxTokens) \cup LongBodies \cup EdgeBodies \cup Examples

Dates == {MsPerDay - 1, MsPerDay}

-----------------------------------------------------------------------------
(* Inputs of the scan: what SmsAndroid.list hands to the success callback. *)

\* A message of the inbox, {body, date, ...}.
Message(b, d) == [body |-> b, date |-> d]

\* The messages an inbox may hold; a list names its messages by their number.
SampleMessages ==
    << Message(<<"R", "s", " ", "2", "5", "0", " ", "p", "a", "i", "d", " ",
                  "t", "o", " ", "A", "m", "a", "z", "o", "n">>, MsPerDay),
       Message(<<"Y", "o", "u", "r", " ", "O", "T", "P", " ", "i", "s", " ",
                  "4", "8", "2", "1">>, MsPerDay + 1),
       Message(<<"I", "N", "R", " ", "1", "5", "0", "0", ".", "0", "0", " ",
                  "c", "r", "e", "d", "i", "t", "e", "d">>, 2 * MsPerDay) >>

Sms(id) == SampleMessages[id]

\* The smsList strings: JSON of a list of at most MaxBatch messages, or a
\* string that is no JSON.
SmsLists ==
    {[valid |-> FALSE, list |-> <<>>]}
    \cup { [valid |-> TRUE, list |-> l] :
             l \in UNION {[1..k -> DOMAIN SampleMessages] : k \in 0..MaxBatch} }

\* JSON.parse(smsList) throws.
JsonParseThrows(s) == ~s.valid

\* parseExpenseFromSms(sms.body, sms.date) for each message (the function is
\* pure: its values are computed once).
ParsedSample ==
    [id \in DOMAIN SampleMessages |-> parseExpenseFromSms(Sms(id).body, Sms(id).date)]

\* parsedList.map(sms => parseExpenseFromSms(sms.body, sms.date))
Mapped(l) == [i \in 1..Len(l) |-> ParsedSample[l[i]]]

IsNotNull(e) == e # <<>>

\* NewExpenses with the kept expenses in reverse order.
NewExpensesReversed(l) ==
    LET kept == SelectSeq(Mapped(l), IsNotNull)
    IN  [i \in 1..Len(kept) |-> kept[Len(kept) + 1 - i][1]]

\* .filter(expense => expense !== null), as the list of the expenses kept
NewExpenses(l) ==
    LET kept == SelectSeq(Mapped(l), IsNotNull)
    IN  [i \in 1..Len(kept) |-> kept[i][1]]

-----------------------------------------------------------------------------
(* The App component. *)

PermissionDeniedAlert == "Permission Denied: The app cannot function without SMS access."
RequestErrorAlert == "Error: Failed to request SMS permission."
LoadFailedAlert == "Error: Failed to load SMS messages"
ParseFailedAlert == "Error: Failed to parse SMS messages."

AppInit ==
    /\ expenses = <<>>
    /\ loading = FALSE
    /\ permissionGranted = FALSE
    /\ effectPending = TRUE          \* effects run once after the first render
    /\ requests = 0
    /\ scans = 0
    /\ alert = ""
    /\ event = "mount"
    /\ parsedList = <<>>
    /\ nRequests = 0
    /\ nScans = 0

\* scanSmsForExpenses up to the call of SmsAndroid.list
scanSmsForExpenses ==
    /\ loading' = TRUE
    /\ expenses' = <<>>
    /\ scans' = scans + 1
    /\ nScans' = nScans + 1

\* useEffect(() => { if (permissionGranted) scanSmsForExpenses() },
\*           [permissionGranted])
useEffect ==
    /\ effectPending
    /\ effectPending' = FALSE
    /\ event' = "effect"
    /\ parsedList' = <<>>
    /\ IF permissionGranted
       THEN scanSmsForExpenses
       ELSE UNCHANGED <<loading, expenses, scans, nScans>>
    /\ alert' = ""
    /\ UNCHANGED <<permissionGranted, requests, nRequests>>

\* requestSmsPermission up to the await
requestSmsPermission ==
    /\ requests' = requests + 1
    /\ nRequests' = nRequests + 1

\* The button: disabled={loading}, onPress={handleScanPress}.  Pending effects
\* are flushed before a press is handled.
handleScanPress ==
    /\ ~loading
    /\ ~effectPending
    /\ event' = "press"
    /\ parsedList' = <<>>
    /\ \/ /\ ~permissionGranted
          /\ nRequests < MaxRequests
          /\ requestSmsPermission
          /\ UNCHANGED <<loading, expenses, scans, nScans>>
       \/ /\ permissionGranted
          /\ nScans < MaxScans
          /\ scanSmsForExpenses
          /\ UNCHANGED <<requests, nRequests>>
    /\ alert' = ""
    /\ UNCHANGED <<permissionGranted, effectPending>>

\* requestSmsPermission after the await: granted === RESULTS.GRANTED.  The
\* effect of an earlier change of permissionGranted runs before the render of
\* the next change, so a resolution is taken up after it.
PermissionGranted ==
    /\ ~effectPending
    /\ requests > 0
    /\ requests' = requests - 1
    /\ permissionGranted' = TRUE
    /\ effectPending' = ~permissionGranted
    /\ alert' = ""
    /\ event' = "granted"
    /\ parsedList' = <<>>
    /\ UNCHANGED <<expenses, loading, scans, nRequests, nScans>>

\* requestSmsPermission after the await: any other result
PermissionDenied ==
    /\ ~effectPending
    /\ requests > 0
    /\ requests' = requests - 1
    /\ permissionGranted' = FALSE
    /\ effectPending' = permissionGranted
    /\ alert' = PermissionDeniedAlert
    /\ event' = "denied"
    /\ parsedList' = <<>>
    /\ UNCHANGED <<expenses, loading, scans, nRequests, nScans>>

\* requestSmsPermission: the request rejects, catch (err)
PermissionError ==
    /\ ~effectPending
    /\ requests > 0
    /\ requests' = requests - 1
    /\ alert' = RequestErrorAlert
    /\ event' = "requestError"
    /\ parsedList' = <<>>
    /\ UNCHANGED <<expenses, loading, permissionGranted, effectPending, scans,
                   nRequests, nScans>>

\* SmsAndroid.list: the fail callback
ListFail ==
    /\ scans > 0
    /\ scans' = scans - 1
    /\ loading' = FALSE
    /\ alert' = LoadFailedAlert
    /\ event' = "listFail"
    /\ parsedList' = <<>>
    /\ UNCHANGED <<expenses, permissionGranted, effectPending, requests,
                   nRequests, nScans>>

\* ListSuccess with setLoading(false) at the end of the try block instead of
\* in a finally block.
ListSuccessNoFinally ==
    /\ scans > 0
    /\ scans' = scans - 1
    /\ \E s \in SmsLists :
        /\ \/ /\ ~JsonParseThrows(s)
              /\ parsedList' = s.list
              /\ expenses' = NewExpenses(s.list)
              /\ event' = "listSuccess"
              /\ loading' = FALSE
              /\ alert' = ""
           \/ /\ JsonParseThrows(s)
              /\ alert' = ParseFailedAlert
              /\ event' = "parseError"
              /\ parsedList' = <<>>
              /\ UNCHANGED <<expenses, loading>>
    /\ UNCHANGED <<permissionGranted, effectPending, requests, nRequests, nScans>>

\* SmsAndroid.list: the success callback, try / catch / finally
ListSuccess ==
    /\ scans > 0
    /\ scans' = scans - 1
    /\ \E s \in SmsLists :
        /\ \/ /\ ~JsonParseThrows(s)
              /\ parsedList' = s.list
              /\ expenses' = NewExpenses(s.list)
              /\ event' = "listSuccess"
              /\ alert' = ""
           \/ /\ JsonParseThrows(s)
              /\ alert' = ParseFailedAlert
              /\ event' = "parseError"
              /\ parsedList' = <<>>
              /\ UNCHANGED expenses
    /\ loading' = FALSE
    /\ UNCHANGED <<permissionGranted, effectPending, requests, nRequests, nScans>>

Init ==
    /\ AppInit
    /\ body = <<>>
    /\ date = 0
    /\ amountMatch = <<>>
    /\ result = <<>>
    /\ pc = "idle"

Next ==
    \/ useEffect /\ UNCHANGED extractVars
    \/ handleScanPress /\ UNCHANGED extractVars
    \/ PermissionGranted /\ UNCHANGED extractVars
    \/ PermissionDenied /\ UNCHANGED extractVars
    \/ PermissionError /\ UNCHANGED extractVars
    \/ ListFail /\ UNCHANGED extractVars
    \/ ListSuccess /\ UNCHANGED extractVars

Spec == Init /\ [][Next]_vars

\* SmsAndroid.list calls back once for every call; effects are run.
FairSpec ==
    /\ Init
    /\ [][Next]_vars
    /\ WF_vars((ListFail \/ ListSuccess) /\ UNCHANGED extractVars)
    /\ WF_vars(useEffect /\ UNCHANGED extractVars)

-----------------------------------------------------------------------------
(* One call of parseExpenseFromSms on any body and date. *)

ExtractInit ==
    /\ AppInit
    /\ body \in Bodies
    /\ date \in Dates
    /\ amountMatch = <<>>
    /\ result = <<>>
    /\ pc = "call"

ParseExpense ==
    /\ pc = "call"
    /\ amountMatch' = StringMatch(body)
    /\ result' = parseExpenseFromSms(body, date)
    /\ pc' = "return"
    /\ UNCHANGED <<body, date>>

ExtractNext == ParseExpense /\ UNCHANGED appVars

SpecExtract == ExtractInit /\ [][ExtractNext]_vars

-----------------------------------------------------------------------------
(* The amount pattern as the specification words it: a currency marker     *)
(* (RS, INR or the rupee sign, letters in any case), an optional blank,    *)
(* one or more digits, and optionally a point with one or two digits.      *)

IsMarker(w) ==
    \/ w = <<RUPEE>>
    \/ [i \in 1..Len(w) |-> Canonicalize(w[i])] \in {<<"R", "S">>, <<"I", "N", "R">>}

\* The length of the marker that starts at p, 0 when none does.
SpecMarkerLen(s, p) ==
    LET lens == {a \in 1..3 : p + a - 1 <= Len(s) /\ IsMarker(SubSeq(s, p, p + a - 1))}
    IN  IF lens = {} THEN 0 ELSE CHOOSE a \in lens : TRUE

HasMarker(s) == \E p \in 1..Len(s) : SpecMarkerLen(s, p) # 0

\* Where the digits of the amount that starts at p begin, 0 when no amount
\* starts at p.
SpecDigitsStart(s, p) ==
    LET a == SpecMarkerLen(s, p)
        q == IF p + a <= Len(s) /\ IsSpace(s[p + a]) THEN p + a + 1 ELSE p + a
    IN  IF a # 0 /\ q <= Len(s) /\ IsDigit(s[q]) THEN q ELSE 0

\* The position after the numeric token whose digits begin at q.
SpecTokenEnd(s, q) ==
    LET d == CHOOSE e \in q..(Len(s) + 1) :
                 /\ \A i \in q..(e - 1) : IsDigit(s[i])
                 /\ e = Len(s) + 1 \/ ~IsDigit(s[e])
    IN  IF d + 1 <= Len(s) /\ s[d] = "." /\ IsDigit(s[d + 1])
        THEN IF d + 2 <= Len(s) /\ IsDigit(s[d + 2]) THEN d + 3 ELSE d + 2
        ELSE d

\* The positions at which a currency amount starts.
SpecOccurrences(s) == {p \in 1..Len(s) : SpecDigitsStart(s, p) # 0}

Returned == pc = "return"

-----------------------------------------------------------------------------
\* C1: parseExpenseFromSms returns null for every body that holds no currency
\* marker, and returns an Expense only for a body in which a currency amount
\* occurs.
C1_NullWithoutMarker ==
    Returned =>
        /\ ~HasMarker(body) => result = <<>>
        /\ result # <<>> => SpecOccurrences(body) # {}

\* C1: a body with digits and no marker was parsed to null.
C1_Witness ==
    /\ Returned
    /\ ~HasMarker(body)
    /\ \E i \in 1..Len(body) : IsDigit(body[i])
    /\ result = <<>>

\* C2: the text recognised as the amount is exactly marker, optional blank,
\* digits and an optional point with one or two digits, nothing else, and the
\* amount is the value of that numeric token.
C2_MatchIsExactlyTheAmount ==
    (Returned /\ result # <<>> /\ SpecOccurrences(body) # {}) =>
        LET p == Min(SpecOccurrences(body))
            q == SpecDigitsStart(body, p)
            e == SpecTokenEnd(body, q)
        IN  /\ amountMatch[1].whole = SubSeq(body, p, e - 1)
            /\ result[1].amount = ParseFloat(SubSeq(body, q, e - 1))

\* The first place at which the text w occurs in s.
FirstOccurrence(s, w) ==
    Min({p \in 1..(Len(s) - Len(w) + 1) : SubSeq(s, p, p + Len(w) - 1) = w})

\* s without the first occurrence of the text w.
WithoutFirst(s, w) ==
    LET p == FirstOccurrence(s, w)
    IN  SubSeq(s, 1, p - 1) \o SubSeq(s, p + Len(w), Len(s))

\* C3: the description is the body without the first occurrence of the
\* matched text, cut to its first 50 characters, followed by "..." whether
\* or not anything was cut; it ends with "..." and is at most 53 long.
C3_Description ==
    (Returned /\ result # <<>>) =>
        LET rest == WithoutFirst(body, amountMatch[1].whole)
            kept == IF Len(rest) > 50 THEN 50 ELSE Len(rest)
            desc == result[1].description
        IN  /\ desc = SubSeq(rest, 1, kept) \o <<".", ".", ".">>
            /\ Len(desc) <= 53
            /\ SubSeq(desc, Len(desc) - 2, Len(desc)) = <<".", ".", ".">>

\* C3: a description was cut (more than 50 characters were left).
C3_Witness ==
    /\ Returned
    /\ result # <<>>
    /\ Len(body) - Len(amountMatch[1].whole) > 50
    /\ Len(result[1].description) = 53

\* C4: an Expense never carries a non-finite or negative amount.
C4_AmountFinite ==
    (Returned /\ result # <<>>) => result[1].amount.kind = "finite"

\* C6: when several currency amounts occur in a body, the leftmost one is the
\* match and gives the amount, one Expense is returned, and what follows the
\* match (the later occurrences with it) stays in the description.
C6_LeftmostOnly ==
    (Returned /\ Cardinality(SpecOccurrences(body)) >= 2) =>
        LET p == Min(SpecOccurrences(body))
            q == SpecDigitsStart(body, p)
        IN  /\ Len(result) = 1
            /\ amountMatch[1].index = p
            /\ result[1].amount = ParseFloat(SubSeq(body, q, SpecTokenEnd(body, q) - 1))
            /\ LET cut == Len(amountMatch[1].whole)
                   desc == result[1].description
               IN  \A i \in (p + cut)..Len(body) :
                       i - cut <= 50 => desc[i - cut] = body[i]

\* C6: a body with two amounts of different value was parsed.
C6_Witness ==
    /\ Returned
    /\ result # <<>>
    /\ \E p1, p2 \in SpecOccurrences(body) :
          /\ p1 < p2
          /\ ParseFloat(SubSeq(body, SpecDigitsStart(body, p1), Len(body)))
               # ParseFloat(SubSeq(body, SpecDigitsStart(body, p2), Len(body)))

ToLowerCase ==
    [c \in Range(UpperCase) |->
        LowerCase[CHOOSE i \in 1..Len(UpperCase) : UpperCase[i] = c]]

Recase(c, upper) ==
    IF upper
    THEN Canonicalize(c)
    ELSE IF c \in DOMAIN ToLowerCase THEN ToLowerCase[c] ELSE c

\* The texts that differ from s only in the letter case of positions p..p+a-1.
CaseVariants(s, p, a) ==
    { [i \in 1..Len(s) |-> IF i \in DOMAIN c THEN Recase(s[i], c[i]) ELSE s[i]] :
        c \in [p..(p + a - 1) -> BOOLEAN] }

\* C7: bodies that differ only in the letter case of the marker of the amount
\* all match and give the same amount and the same description.
C7_CaseInsensitive ==
    (Returned /\ SpecOccurrences(body) # {}) =>
        LET p == Min(SpecOccurrences(body))
        IN  /\ result # <<>>
            /\ \A v \in CaseVariants(body, p, SpecMarkerLen(body, p)) :
                   parseExpenseFromSms(v, date) = result

\* C7: a body whose marker is written in lower case was parsed to an Expense.
C7_Witness ==
    /\ Returned
    /\ result # <<>>
    /\ SubSeq(body, amountMatch[1].index, amountMatch[1].index + 1) = <<"r", "s">>

-----------------------------------------------------------------------------
\* The index of the k-th message of l in which a currency amount occurs.
KthMatching(l, k) ==
    LET matching == {i \in 1..Len(l) : SpecOccurrences(Sms(l[i]).body) # {}}
    IN  CHOOSE i \in matching : Cardinality({j \in matching : j <= i}) = k

\* C5: after the success callback got a list of messages, expenses holds one
\* entry for each message in which an amount occurs, none for the others, each
\* the Expense parsed from its message, in the order of the messages.
C5_ExpensesInOrder ==
    event = "listSuccess" =>
        LET l == parsedList
            matching == {i \in 1..Len(l) : SpecOccurrences(Sms(l[i]).body) # {}}
        IN  /\ Len(expenses) = Cardinality(matching)
            /\ \A k \in 1..Len(expenses) :
                   LET sms == Sms(l[KthMatching(l, k)])
                   IN  <<expenses[k]>> = parseExpenseFromSms(sms.body, sms.date)

\* C5: a batch of a matching message, one without amount and another matching
\* message gave two different expenses.
C5_Witness ==
    /\ event = "listSuccess"
    /\ Len(parsedList) = 3
    /\ SpecOccurrences(Sms(parsedList[1]).body) # {}
    /\ SpecOccurrences(Sms(parsedList[2]).body) = {}
    /\ SpecOccurrences(Sms(parsedList[3]).body) # {}
    /\ Len(expenses) = 2
    /\ expenses[1] # expenses[2]

\* C8: a denied permission raises an alert and starts no scan; a failed or
\* unparseable inbox read raises an error alert, sets loading to false and
\* leaves the expenses list empty.
C8_FailureLeavesNoExpenses ==
    [][ /\ event' = "denied" =>
            /\ alert' = PermissionDeniedAlert
            /\ nScans' = nScans
        /\ event' \in {"listFail", "parseError"} =>
            /\ alert' \in {LoadFailedAlert, ParseFailedAlert}
            /\ loading' = FALSE
            /\ expenses' = <<>> ]_vars

\* C9: at most one scan is in flight, and none is while loading is false.
C9_OneScanInFlight ==
    /\ scans <= 1
    /\ ~loading => scans = 0

\* C10: whenever loading is true it is eventually false again, given that the
\* inbox read calls back once for every scan.
C10_LoadingCleared == loading ~> ~loading

\* C10: a scan ended in the catch branch and loading is false.
C10_Witness ==
    /\ event = "parseError"
    /\ nScans > 0
    /\ ~loading

====
